---- MODULE Spec2Model ----
(***************************************************************************)
(* Model of the bookstore inventory server (src/server.js).                *)
(*                                                                         *)
(* The state is the db.json document (books, sellers, stockMovements,      *)
(* sales), the last request handled, its response and the document as it   *)
(* was loaded by that request, and the largest id any book was ever given. *)
(* Every Express handler is synchronous (loadDb .. saveDb without an       *)
(* await), so one handler is one action.                                   *)
(* Timestamps (date, created_at) are not modelled: no handler reads them.  *)
(* saveDb is modelled as a write that succeeds.                            *)
(***************************************************************************)
EXTENDS Integers, Sequences, FiniteSets, TLC

VARIABLES db, req, res, pre, writes, issued, intents, running

vars == <<db, req, res, pre, writes, issued, intents, running>>

(***************************************************************************)
(* Bounds.                                                                 *)
(***************************************************************************)
MaxWrites == 3      \* requests of one behaviour that change the inventory
MaxBooks == 2       \* books held at once
MaxQty == 2         \* largest quantity of a restock or of a single sale
MaxItems == 2       \* items of one quick sale
MaxRows == 2        \* rows of one import
MaxIntents == 2     \* requests in flight at once

(***************************************************************************)
(* JSON values of a request body that are read as numbers.                 *)
(*   Null     : the field is absent (undefined) or null                    *)
(*   Empty    : the string ''                                              *)
(*   Text     : a string with no leading digits, such as 'abc'             *)
(*   Num(n)   : the number n                                               *)
(*   Frac(n)  : the number n + 1/2, n >= 0  (1.5 is Frac(1))               *)
(***************************************************************************)
Null == [k |-> "null", n |-> 0]
Empty == [k |-> "empty", n |-> 0]
Text == [k |-> "text", n |-> 0]
Num(n) == [k |-> "num", n |-> n]
Frac(n) == [k |-> "frac", n |-> n]

NaN == [nan |-> TRUE, n |-> 0]
Val(n) == [nan |-> FALSE, n |-> n]

\* parseInt(v, 10): the integer prefix of String(v); NaN when there is none.
parseInt(v) ==
  CASE v.k = "num" -> Val(v.n)
    [] v.k = "frac" -> Val(v.n)
    [] OTHER -> NaN

\* v != null && v !== '' ? parseInt(v, 10) : 0
ParseQty(v) == IF v.k \in {"null", "empty"} THEN Val(0) ELSE parseInt(v)

\* v != null && v !== '' ? Number(v) : 0     (whole numbers and strings only)
ParsePrice(v) ==
  CASE v.k \in {"null", "empty"} -> Val(0)
    [] v.k = "num" -> Val(v.n)
    [] OTHER -> NaN

\* String(s).trim() of a string field; "" also stands for an absent field.
Trim(s) == IF s = " " THEN "" ELSE s

(***************************************************************************)
(* Entity repositories.                                                    *)
(***************************************************************************)
RECURSIVE FindFrom(_, _, _)
FindFrom(coll, code, i) ==
  IF i > Len(coll) THEN 0
  ELSE IF coll[i].barcode = code THEN i
  ELSE FindFrom(coll, code, i + 1)

\* coll.find(x => x.barcode === code): index of the first match, 0 if none
FindByBarcode(coll, code) == FindFrom(coll, code, 1)

RECURSIVE FindIdFrom(_, _, _)
FindIdFrom(coll, id, i) ==
  IF i > Len(coll) THEN 0
  ELSE IF coll[i].id = id THEN i
  ELSE FindIdFrom(coll, id, i + 1)

\* books.find(b => b.id === id)
FindById(coll, id) == FindIdFrom(coll, id, 1)

\* variant: only the first entry is compared
BarcodeTaken_FirstOnly(coll, code) == Len(coll) > 0 /\ coll[1].barcode = code

\* books.some(b => b.barcode === code)
BarcodeTaken(coll, code) == \E i \in 1..Len(coll) : coll[i].barcode = code

MaxOf(S) == CHOOSE m \in S : \A n \in S : n <= m

\* variant: coll.length + 1
NextId_Length(coll) == Len(coll) + 1

\* coll.length ? Math.max(...coll.map(x => x.id || 0)) + 1 : 1
NextId(coll) ==
  IF Len(coll) = 0 THEN 1
  ELSE MaxOf({coll[i].id : i \in 1..Len(coll)} \cup {0}) + 1

(***************************************************************************)
(* Responses.                                                              *)
(***************************************************************************)
\* an error message: its text and the values interpolated into it
Err(text, index, code, title) ==
  [text |-> text, index |-> index, code |-> code, title |-> title]
NoErr == Err("", 0, "", "")

Fail(status, err) == [status |-> status, error |-> err, data |-> <<>>]
Ok(data) == [status |-> 200, error |-> NoErr, data |-> data]

EmptyDb == [books |-> <<>>, sellers |-> <<>>, stockMovements |-> <<>>, sales |-> <<>>]

(***************************************************************************)
(* POST /api/books : create or update a book.                              *)
(***************************************************************************)
\* the generated code 'B' + 8 digits of the clock + 3 random digits; a
\* caller may supply a code of the same form
GenCodes == {"A", "B"}

\* variant: the update also stores the quantity of the request
UpdateBook_QtyStored(b, body, price, barcode) ==
  [b EXCEPT !.title = Trim(body.title), !.author = body.author,
            !.publisher = body.publisher, !.shelf = body.shelf,
            !.price = price, !.barcode = barcode,
            !.initial_qty = ParseQty(body.initialQty).n,
            !.current_qty = ParseQty(body.initialQty).n]

UpdateBook(b, body, price, barcode) ==
  [b EXCEPT !.title = Trim(body.title), !.author = body.author,
            !.publisher = body.publisher, !.shelf = body.shelf,
            !.price = price, !.barcode = barcode]

NewBook(id, barcode, body, price, initialQty) ==
  [id |-> id, barcode |-> barcode, title |-> Trim(body.title),
   author |-> body.author, publisher |-> body.publisher, shelf |-> body.shelf,
   price |-> price, initial_qty |-> initialQty, current_qty |-> initialQty]

\* variant: the book's own code is not set apart
UpdateConflict_OwnCodeCounted(books, i, barcode) ==
  barcode # "" /\ BarcodeTaken(books, barcode)

\* barcode && barcode !== existing.barcode && books.some(b => b.barcode === barcode)
UpdateConflict(books, i, barcode) ==
  barcode # "" /\ barcode # books[i].barcode /\ BarcodeTaken(books, barcode)

\* outcome of the handler on document d; gen is the code the do-while loop
\* would settle on
PostBooks(d, body, gen) ==
  LET books == d.books
      price == ParsePrice(body.price)
      initialQty == ParseQty(body.initialQty)
      barcode == Trim(body.barcode)
      i == FindById(books, body.id)
  IN
  IF Trim(body.title) = "" THEN [db |-> d, res |-> Fail(400, Err("missing title", 0, "", ""))]
  ELSE IF price.nan \/ price.n < 0 THEN [db |-> d, res |-> Fail(400, Err("bad price", 0, "", ""))]
  ELSE IF initialQty.nan \/ initialQty.n < 0 THEN [db |-> d, res |-> Fail(400, Err("bad initial qty", 0, "", ""))]
  ELSE IF body.id # 0 THEN
    IF i = 0 THEN [db |-> d, res |-> Fail(404, Err("book not found for update", 0, "", ""))]
    ELSE IF UpdateConflict(books, i, barcode)
      THEN [db |-> d, res |-> Fail(400, Err("barcode exists", 0, "", ""))]
    ELSE
      LET code == IF barcode = "" THEN books[i].barcode ELSE barcode
          nb == UpdateBook(books[i], body, price.n, code)
      IN [db |-> [d EXCEPT !.books = [books EXCEPT ![i] = nb]], res |-> Ok(nb)]
  ELSE IF barcode # "" /\ BarcodeTaken(books, barcode)
    THEN [db |-> d, res |-> Fail(400, Err("barcode exists", 0, "", ""))]
  ELSE
    LET code == IF barcode = "" THEN gen ELSE barcode
        nb == NewBook(NextId(books), code, body, price.n, initialQty.n)
    IN [db |-> [d EXCEPT !.books = Append(books, nb)], res |-> Ok(nb)]

(***************************************************************************)
(* POST /api/books/delete                                                  *)
(***************************************************************************)
\* variant: the filter without its negation
KeepBooks_Inverted(books, ids) == SelectSeq(books, LAMBDA b : b.id \in ids)

\* books.filter(b => !idSet.has(Number(b.id)))
KeepBooks(books, ids) == SelectSeq(books, LAMBDA b : b.id \notin ids)

\* variant: the deletion also drops the movements and sales of the deleted books
PostBooksDelete_Cascade(d, body) ==
  IF ~body.isArray \/ body.ids = {} THEN [db |-> d, res |-> Fail(400, Err("no books to delete", 0, "", ""))]
  ELSE
    LET kept == KeepBooks(d.books, body.ids)
        left(x) == \E i \in 1..Len(kept) : kept[i].barcode = x.bookBarcode
    IN [db |-> [d EXCEPT !.books = kept,
                         !.stockMovements = SelectSeq(@, left),
                         !.sales = SelectSeq(@, left)],
        res |-> Ok([deletedCount |-> Len(d.books) - Len(kept)])]

\* isArray is FALSE when the body carries no ids array
PostBooksDelete(d, body) ==
  IF ~body.isArray \/ body.ids = {} THEN [db |-> d, res |-> Fail(400, Err("no books to delete", 0, "", ""))]
  ELSE
    LET kept == KeepBooks(d.books, body.ids)
    IN [db |-> [d EXCEPT !.books = kept],
        res |-> Ok([deletedCount |-> Len(d.books) - Len(kept)])]

(***************************************************************************)
(* POST /api/sellers                                                       *)
(***************************************************************************)
PostSellers(d, body) ==
  LET name == Trim(body.name)
      barcode == Trim(body.barcode)
  IN
  IF name = "" THEN [db |-> d, res |-> Fail(400, Err("missing seller name", 0, "", ""))]
  ELSE IF barcode = "" THEN [db |-> d, res |-> Fail(400, Err("missing seller barcode", 0, "", ""))]
  ELSE IF BarcodeTaken(d.sellers, barcode) THEN [db |-> d, res |-> Fail(400, Err("seller barcode exists", 0, "", ""))]
  ELSE
    LET seller == [id |-> NextId(d.sellers), name |-> name, barcode |-> barcode]
    IN [db |-> [d EXCEPT !.sellers = Append(d.sellers, seller)], res |-> Ok(seller)]

(***************************************************************************)
(* POST /api/stock/in                                                      *)
(***************************************************************************)
\* variant: every movement is written with type: 'in'
Movement_AlwaysIn(id, type, barcode, qty, note) ==
  [id |-> id, type |-> "in", bookBarcode |-> barcode, qty |-> qty, note |-> note]

\* a record of stockMovements
Movement(id, type, barcode, qty, note) ==
  [id |-> id, type |-> type, bookBarcode |-> barcode, qty |-> qty, note |-> note]

\* isNaN(qty) || qty <= 0
BadQty(qty) == qty.nan \/ qty.n <= 0

PostStockIn(d, body) ==
  LET barcode == Trim(body.barcode)
      qty == ParseQty(body.qty)
      i == FindByBarcode(d.books, barcode)
  IN
  IF barcode = "" \/ BadQty(qty) THEN [db |-> d, res |-> Fail(400, Err("bad barcode or qty", 0, "", ""))]
  ELSE IF i = 0 THEN [db |-> d, res |-> Fail(404, Err("book not found", 0, "", ""))]
  ELSE
    LET book == [d.books[i] EXCEPT !.current_qty = @ + qty.n]
        m == Movement(NextId(d.stockMovements), "in", barcode, qty.n, body.note)
    IN [db |-> [d EXCEPT !.books = [d.books EXCEPT ![i] = book],
                         !.stockMovements = Append(d.stockMovements, m)],
        res |-> Ok(book)]

(***************************************************************************)
(* POST /api/stock/sale : single-book sale                                 *)
(***************************************************************************)
Sale(id, bookBarcode, sellerBarcode, qty, total) ==
  [id |-> id, bookBarcode |-> bookBarcode, sellerBarcode |-> sellerBarcode,
   qty |-> qty, total |-> total]

\* variant: currentQty <= qty
SaleShort_OffByOne(currentQty, qty) == currentQty <= qty

\* currentQty < qty
SaleShort(currentQty, qty) == currentQty < qty

\* variant: price + qty
SaleTotal_Added(price, qty) == price + qty

\* price * qty
SaleTotal(price, qty) == price * qty

PostStockSale(d, body) ==
  LET bookBarcode == Trim(body.bookBarcode)
      sellerBarcode == Trim(body.sellerBarcode)
      qty == ParseQty(body.qty)
      i == FindByBarcode(d.books, bookBarcode)
      j == FindByBarcode(d.sellers, sellerBarcode)
  IN
  IF bookBarcode = "" \/ sellerBarcode = "" \/ BadQty(qty)
    THEN [db |-> d, res |-> Fail(400, Err("bad sale data", 0, "", ""))]
  ELSE IF i = 0 THEN [db |-> d, res |-> Fail(404, Err("book not found", 0, "", ""))]
  ELSE IF j = 0 THEN [db |-> d, res |-> Fail(404, Err("seller not found", 0, "", ""))]
  ELSE IF SaleShort(d.books[i].current_qty, qty.n)
    THEN [db |-> d, res |-> Fail(400, Err("insufficient stock", 0, "", ""))]
  ELSE
    LET total == SaleTotal(d.books[i].price, qty.n)
        book == [d.books[i] EXCEPT !.current_qty = @ - qty.n]
        m == Movement(NextId(d.stockMovements), "out", bookBarcode, qty.n,
                      "sale to " \o d.sellers[j].name)
        s == Sale(NextId(d.sales), bookBarcode, sellerBarcode, qty.n, total)
    IN [db |-> [d EXCEPT !.books = [d.books EXCEPT ![i] = book],
                         !.stockMovements = Append(d.stockMovements, m),
                         !.sales = Append(d.sales, s)],
        res |-> Ok([bookTitle |-> book.title, sellerName |-> d.sellers[j].name,
                    qty |-> qty.n, total |-> total])]

(***************************************************************************)
(* POST /api/sales/quick : multi-book sale                                 *)
(***************************************************************************)
\* variant: the validation loop without its stock check
QuickCheckItem_NoStockCheck(books, item, i) ==
  LET barcode == Trim(item.barcode)
      qty == ParseQty(item.qty)
      b == FindByBarcode(books, barcode)
  IN
  IF barcode = "" \/ BadQty(qty) THEN Fail(400, Err("invalid sale row", i, "", ""))
  ELSE IF b = 0 THEN Fail(404, Err("book with barcode not found", 0, barcode, ""))
  ELSE Ok(<<>>)

\* the checks of the validation loop on items[i]; status 200 when it passes
QuickCheckItem(books, item, i) ==
  LET barcode == Trim(item.barcode)
      qty == ParseQty(item.qty)
      b == FindByBarcode(books, barcode)
  IN
  IF barcode = "" \/ BadQty(qty) THEN Fail(400, Err("invalid sale row", i, "", ""))
  ELSE IF b = 0 THEN Fail(404, Err("book with barcode not found", 0, barcode, ""))
  ELSE IF books[b].current_qty < qty.n
    THEN Fail(400, Err("insufficient stock for book", 0, "", books[b].title))
  ELSE Ok(<<>>)

\* the validation loop from items[i] on: the response of the first item that
\* fails, status 200 when every item passes.  No item changes the books.
RECURSIVE QuickValidate(_, _, _)
QuickValidate(books, items, i) ==
  IF i > Len(items) THEN Ok(<<>>)
  ELSE IF QuickCheckItem(books, items[i], i).status # 200 THEN QuickCheckItem(books, items[i], i)
  ELSE QuickValidate(books, items, i + 1)

\* variant: totalAmount = rowTotal instead of totalAmount += rowTotal
QuickApplyItem_TotalOverwritten(st, item, seller) ==
  LET d == st.db
      barcode == Trim(item.barcode)
      qty == ParseQty(item.qty).n
      b == FindByBarcode(d.books, barcode)
      rowTotal == d.books[b].price * qty
  IN [db |-> [d EXCEPT
               !.books = [d.books EXCEPT ![b] = [@ EXCEPT !.current_qty = @ - qty]],
               !.stockMovements = Append(@, Movement(st.nextMoveId, "out", barcode, qty,
                                                     "quick sale to " \o seller.name)),
               !.sales = Append(@, Sale(st.nextSaleId, barcode, seller.barcode, qty, rowTotal))],
      nextMoveId |-> st.nextMoveId + 1,
      nextSaleId |-> st.nextSaleId + 1,
      totalAmount |-> rowTotal,
      totalQty |-> st.totalQty + qty]

\* variant: id: nextSaleId instead of id: nextSaleId++
QuickApplyItem_SaleIdKept(st, item, seller) ==
  LET d == st.db
      barcode == Trim(item.barcode)
      qty == ParseQty(item.qty).n
      b == FindByBarcode(d.books, barcode)
      rowTotal == d.books[b].price * qty
  IN [db |-> [d EXCEPT
               !.books = [d.books EXCEPT ![b] = [@ EXCEPT !.current_qty = @ - qty]],
               !.stockMovements = Append(@, Movement(st.nextMoveId, "out", barcode, qty,
                                                     "quick sale to " \o seller.name)),
               !.sales = Append(@, Sale(st.nextSaleId, barcode, seller.barcode, qty, rowTotal))],
      nextMoveId |-> st.nextMoveId + 1,
      nextSaleId |-> st.nextSaleId,
      totalAmount |-> st.totalAmount + rowTotal,
      totalQty |-> st.totalQty + qty]

\* one round of normalizedItems.forEach; st carries the document, the two
\* running identifiers and the two running totals
QuickApplyItem(st, item, seller) ==
  LET d == st.db
      barcode == Trim(item.barcode)
      qty == ParseQty(item.qty).n
      b == FindByBarcode(d.books, barcode)
      rowTotal == d.books[b].price * qty
  IN [db |-> [d EXCEPT
               !.books = [d.books EXCEPT ![b] = [@ EXCEPT !.current_qty = @ - qty]],
               !.stockMovements = Append(@, Movement(st.nextMoveId, "out", barcode, qty,
                                                     "quick sale to " \o seller.name)),
               !.sales = Append(@, Sale(st.nextSaleId, barcode, seller.barcode, qty, rowTotal))],
      nextMoveId |-> st.nextMoveId + 1,
      nextSaleId |-> st.nextSaleId + 1,
      totalAmount |-> st.totalAmount + rowTotal,
      totalQty |-> st.totalQty + qty]

RECURSIVE QuickApply(_, _, _, _)
QuickApply(st, items, i, seller) ==
  IF i > Len(items) THEN st
  ELSE QuickApply(QuickApplyItem(st, items[i], seller), items, i + 1, seller)

\* isArray is FALSE when the body carries no items array
PostSalesQuick(d, body) ==
  LET sellerCode == Trim(body.sellerBarcode)
      j == FindByBarcode(d.sellers, sellerCode)
      v == QuickValidate(d.books, body.items, 1)
      st0 == [db |-> d, nextMoveId |-> NextId(d.stockMovements),
              nextSaleId |-> NextId(d.sales), totalAmount |-> 0, totalQty |-> 0]
      st == QuickApply(st0, body.items, 1, d.sellers[j])
  IN
  IF sellerCode = "" THEN [db |-> d, res |-> Fail(400, Err("missing seller barcode", 0, "", ""))]
  ELSE IF ~body.isArray \/ Len(body.items) = 0
    THEN [db |-> d, res |-> Fail(400, Err("no items", 0, "", ""))]
  ELSE IF j = 0 THEN [db |-> d, res |-> Fail(404, Err("seller not found", 0, "", ""))]
  ELSE IF v.status # 200 THEN [db |-> d, res |-> v]
  ELSE [db |-> st.db,
        res |-> Ok([totalAmount |-> st.totalAmount, totalQty |-> st.totalQty,
                    itemsCount |-> Len(body.items)])]

(***************************************************************************)
(* POST /api/import/books-tsv                                              *)
(***************************************************************************)
\* variant: insertedCount++ inside if (initialQty > 0)
ImportRow_CountWithMovement(st, row, index) ==
  LET title == Trim(row.title)
      barcode == Trim(row.barcode)
      price == ParsePrice(row.price)
      initialQty == ParseQty(row.initialQty)
      newBook == NewBook(st.nextBookId, barcode, row, price.n, initialQty.n)
  IN
  IF ~row.present THEN st
  ELSE IF title = "" THEN [st EXCEPT !.errors = Append(@, Err("missing title", index, "", ""))]
  ELSE IF barcode = "" THEN [st EXCEPT !.errors = Append(@, Err("missing barcode", index, "", ""))]
  ELSE IF BarcodeTaken(st.books, barcode) THEN [st EXCEPT !.skippedExisting = @ + 1]
  ELSE IF price.nan \/ price.n < 0 THEN [st EXCEPT !.errors = Append(@, Err("bad price", index, "", ""))]
  ELSE IF initialQty.nan \/ initialQty.n < 0
    THEN [st EXCEPT !.errors = Append(@, Err("bad initial qty", index, "", ""))]
  ELSE IF initialQty.n > 0 THEN
    [st EXCEPT !.books = Append(@, newBook),
               !.nextBookId = @ + 1,
               !.movements = Append(@, Movement(st.nextMoveId, "in", barcode, initialQty.n,
                                                "initial import")),
               !.nextMoveId = @ + 1,
               !.insertedCount = @ + 1]
  ELSE
    [st EXCEPT !.books = Append(@, newBook), !.nextBookId = @ + 1]

\* one round of rows.forEach on rows[index - 1]; st carries the books, the
\* movements, the two running identifiers, the two counters and the errors.
\* A row with present = FALSE is a null entry of the rows array.
ImportRow(st, row, index) ==
  LET title == Trim(row.title)
      barcode == Trim(row.barcode)
      price == ParsePrice(row.price)
      initialQty == ParseQty(row.initialQty)
      newBook == NewBook(st.nextBookId, barcode, row, price.n, initialQty.n)
  IN
  IF ~row.present THEN st
  ELSE IF title = "" THEN [st EXCEPT !.errors = Append(@, Err("missing title", index, "", ""))]
  ELSE IF barcode = "" THEN [st EXCEPT !.errors = Append(@, Err("missing barcode", index, "", ""))]
  ELSE IF BarcodeTaken(st.books, barcode) THEN [st EXCEPT !.skippedExisting = @ + 1]
  ELSE IF price.nan \/ price.n < 0 THEN [st EXCEPT !.errors = Append(@, Err("bad price", index, "", ""))]
  ELSE IF initialQty.nan \/ initialQty.n < 0
    THEN [st EXCEPT !.errors = Append(@, Err("bad initial qty", index, "", ""))]
  ELSE IF initialQty.n > 0 THEN
    [st EXCEPT !.books = Append(@, newBook),
               !.nextBookId = @ + 1,
               !.movements = Append(@, Movement(st.nextMoveId, "in", barcode, initialQty.n,
                                                "initial import")),
               !.nextMoveId = @ + 1,
               !.insertedCount = @ + 1]
  ELSE
    [st EXCEPT !.books = Append(@, newBook), !.nextBookId = @ + 1, !.insertedCount = @ + 1]

RECURSIVE ImportRows(_, _, _)
ImportRows(st, rows, index) ==
  IF index > Len(rows) THEN st
  ELSE ImportRows(ImportRow(st, rows[index], index), rows, index + 1)

\* isArray is FALSE when the body carries no rows array
PostImportBooksTsv(d, body) ==
  LET st0 == [books |-> d.books, movements |-> d.stockMovements,
              nextBookId |-> NextId(d.books), nextMoveId |-> NextId(d.stockMovements),
              insertedCount |-> 0, skippedExisting |-> 0, errors |-> <<>>]
      st == ImportRows(st0, body.rows, 1)
  IN
  IF ~body.isArray THEN [db |-> d, res |-> Fail(400, Err("bad input format (rows)", 0, "", ""))]
  ELSE [db |-> [d EXCEPT !.books = st.books, !.stockMovements = st.movements],
        res |-> Ok([insertedCount |-> st.insertedCount,
                    skippedExisting |-> st.skippedExisting,
                    errors |-> st.errors])]

(***************************************************************************)
(* Request bodies.                                                         *)
(***************************************************************************)
Codes == {"", "A", "B"}
SellerCodes == {"", "S", "T"}
Ids == 0..(MaxBooks + 1)
Qtys == {Null, Empty, Text, Frac(1)} \cup {Num(n) : n \in (-1)..MaxQty}

BookBody(id, c, t, a, p, q) ==
  [id |-> id, barcode |-> c, title |-> t, author |-> a[1], publisher |-> a[2],
   shelf |-> a[3], price |-> p, initialQty |-> q]

\* creations leave author, publisher and shelf out, updates give them; a
\* body with a bad title, price or quantity is otherwise well-formed
BookBodies ==
  {BookBody(0, c, "T", <<"", "", "">>, Num(2), q) : c \in Codes, q \in {Null, Num(1)}}
  \cup {BookBody(id, c, "T", <<"x", "y", "z">>, p, Num(1)) :
     id \in Ids \ {0}, c \in Codes, p \in {Null, Num(2)}}
  \cup {BookBody(id, "A", t, <<"", "", "">>, Num(2), Null) : id \in {0, 1}, t \in {"", " "}}
  \cup {BookBody(id, "A", "T", <<"", "", "">>, p, Null) : id \in {0, 1}, p \in {Text, Num(-1)}}
  \cup {BookBody(id, "A", "T", <<"", "", "">>, Num(2), q) : id \in {0, 1}, q \in {Text, Num(-1)}}

DeleteBodies ==
  {[isArray |-> TRUE, ids |-> S] : S \in SUBSET (Ids \ {0})}
    \cup {[isArray |-> FALSE, ids |-> {}]}

SellerBodies == [name : {"", "N"}, barcode : SellerCodes]

StockInBodies ==
  [barcode : Codes, qty : Qtys \ {Num(1)}, note : {""}]
    \cup [barcode : Codes, qty : {Num(1)}, note : {"n"}]

SaleBodies ==
  [bookBarcode : Codes, sellerBarcode : {"S"}, qty : Qtys]
    \cup [bookBarcode : Codes, sellerBarcode : {"", "U"}, qty : {Num(1)}]

Items ==
  {[barcode |-> "A", qty |-> Num(1)], [barcode |-> "B", qty |-> Num(1)],
   [barcode |-> "A", qty |-> Num(0)]}

SeqsUpTo(S, n) == UNION {[1..m -> S] : m \in 0..n}

QuickBodies ==
  {[sellerBarcode |-> "S", isArray |-> TRUE, items |-> it] : it \in SeqsUpTo(Items, MaxItems)}
    \cup {[sellerBarcode |-> s, isArray |-> TRUE, items |-> <<[barcode |-> "A", qty |-> q]>>] :
            s \in {"", "U"}, q \in {Num(1)}}
    \cup {[sellerBarcode |-> "S", isArray |-> TRUE, items |-> <<it>>] :
            it \in {[barcode |-> "A", qty |-> Frac(1)], [barcode |-> "", qty |-> Num(1)],
                    [barcode |-> "A", qty |-> Num(2)], [barcode |-> "B", qty |-> Text]}}
    \cup {[sellerBarcode |-> "S", isArray |-> FALSE, items |-> <<>>]}

Row(c, t, p, q) ==
  [present |-> TRUE, barcode |-> c, title |-> t, author |-> "", publisher |-> "",
   shelf |-> "", price |-> p, initialQty |-> q]

Rows ==
  {Row("A", "T", Num(2), Num(3)), Row("B", "T", Num(2), Null),
   Row("A", "", Num(2), Num(1)),
   [Row("", "", Null, Null) EXCEPT !.present = FALSE]}

ImportBodies ==
  {[isArray |-> TRUE, rows |-> r] : r \in SeqsUpTo(Rows, MaxRows)}
    \cup {[isArray |-> TRUE, rows |-> <<r>>] :
            r \in {Row("", "T", Num(2), Num(1)), Row("B", "T", Num(2), Text),
                   Row("B", "T", Num(-1), Num(1))}}
    \cup {[isArray |-> FALSE, rows |-> <<>>]}

(***************************************************************************)
(* The server.                                                             *)
(***************************************************************************)
Idle == [op |-> "none", body |-> <<>>]

Init ==
  /\ db = EmptyDb
  /\ req = Idle
  /\ res = Ok(<<>>)
  /\ pre = EmptyDb
  /\ writes = 0
  /\ issued = 0
  /\ intents = <<>>
  /\ running = 0

Inventory(d) == <<d.books, d.stockMovements, d.sales>>

\* one request: load the document, run the handler, save, respond.  pre keeps
\* the document as loaded; writes counts the requests that changed the books,
\* the movements or the sales; issued keeps the largest id given to a book.
Handle(op, body, out) ==
  /\ req = Idle
  /\ writes < MaxWrites
  /\ Len(out.db.books) <= MaxBooks
  /\ db' = out.db
  /\ req' = [op |-> op, body |-> body]
  /\ res' = out.res
  /\ pre' = db
  /\ writes' = IF Inventory(out.db) # Inventory(db) THEN writes + 1 ELSE writes
  /\ issued' = MaxOf({issued} \cup {out.db.books[i].id : i \in 1..Len(out.db.books)})
  /\ UNCHANGED <<intents, running>>

Books ==
  \E body \in BookBodies :
    \E gen \in GenCodes :
      /\ (body.id = 0 /\ Trim(body.barcode) = "") => ~BarcodeTaken(db.books, gen)
      /\ Handle("books", body, PostBooks(db, body, gen))

BooksDelete == \E body \in DeleteBodies : Handle("delete", body, PostBooksDelete(db, body))

Sellers == \E body \in SellerBodies : Handle("sellers", body, PostSellers(db, body))

StockIn == \E body \in StockInBodies : Handle("in", body, PostStockIn(db, body))

StockSale == \E body \in SaleBodies : Handle("sale", body, PostStockSale(db, body))

SalesQuick == \E body \in QuickBodies : Handle("quick", body, PostSalesQuick(db, body))

ImportBooksTsv == \E body \in ImportBodies : Handle("import", body, PostImportBooksTsv(db, body))

\* the response has been sent; the server waits for the next request
Respond ==
  /\ req # Idle
  /\ req' = Idle
  /\ res' = Ok(<<>>)
  /\ pre' = db
  /\ UNCHANGED <<db, writes, issued, intents, running>>

Next ==
  \/ Books
  \/ BooksDelete
  \/ Sellers
  \/ StockIn
  \/ StockSale
  \/ SalesQuick
  \/ ImportBooksTsv
  \/ Respond

Spec == Init /\ [][Next]_vars

(***************************************************************************)
(* Requests in flight.  Express queues the requests that arrive together   *)
(* and node runs one handler at a time: a handler is taken off the queue   *)
(* when no handler is on the call stack, and it leaves the stack when it   *)
(* returns or awaits.  intents holds the requests with their position      *)
(* (queued, loaded: loadDb has returned, done: the handler has returned)   *)
(* and the document each has loaded; running is the handler on the stack,  *)
(* 0 when there is none; db is the document on disk and pre the document   *)
(* before the requests arrived.                                            *)
(***************************************************************************)
\* app.post(...): the handler of the route of intent in, run on document d
Route(d, in) ==
  CASE in.op = "books" -> PostBooks(d, in.body, in.gen)
    [] in.op = "delete" -> PostBooksDelete(d, in.body)
    [] in.op = "sellers" -> PostSellers(d, in.body)
    [] in.op = "in" -> PostStockIn(d, in.body)
    [] in.op = "sale" -> PostStockSale(d, in.body)
    [] in.op = "quick" -> PostSalesQuick(d, in.body)
    [] in.op = "import" -> PostImportBooksTsv(d, in.body)

\* variant: loadDb and saveDb await the file system, so the stack is free
\* between them
CanStart_Awaits(run) == TRUE

\* a queued handler starts when no handler is on the stack: readFileSync and
\* writeFileSync block, and no handler awaits between loadDb and saveDb
CanStart(run) == run = 0

\* a queued request; the creations in flight give their code, so that gen is
\* not used
Intent(op, body) == [op |-> op, body |-> body, gen |-> "B", pc |-> "queued", snap |-> EmptyDb]

ConcIntents ==
  {Intent("in", [barcode |-> "A", qty |-> Num(1), note |-> ""]),
   Intent("sale", [bookBarcode |-> "A", sellerBarcode |-> "S", qty |-> Num(2)]),
   Intent("quick", [sellerBarcode |-> "S", isArray |-> TRUE,
                    items |-> <<[barcode |-> "A", qty |-> Num(1)], [barcode |-> "A", qty |-> Num(1)]>>]),
   Intent("books", BookBody(0, "B", "T", <<"", "", "">>, Num(2), Num(1))),
   Intent("books", BookBody(1, "", "T", <<"x", "y", "z">>, Num(3), Null)),
   Intent("delete", [isArray |-> TRUE, ids |-> {1}]),
   Intent("sellers", [name |-> "N", barcode |-> "T"]),
   Intent("import", [isArray |-> TRUE, rows |-> <<Row("B", "T", Num(2), Num(1))>>])}

\* a document with book A (two in stock) and seller S
Doc0 ==
  PostSellers(PostBooks(EmptyDb, BookBody(0, "A", "T", <<"", "", "">>, Num(2), Num(2)), "A").db,
              [name |-> "N", barcode |-> "S"]).db

InitConc ==
  /\ db = Doc0
  /\ pre = Doc0
  /\ req = Idle
  /\ res = Ok(<<>>)
  /\ writes = 0
  /\ issued = 1
  /\ intents \in [1..MaxIntents -> ConcIntents]
  /\ running = 0

\* the handler of intent p is called and loadDb returns the document
Load(p) ==
  /\ CanStart(running)
  /\ intents[p].pc = "queued"
  /\ intents' = [intents EXCEPT ![p].pc = "loaded", ![p].snap = db]
  /\ running' = p
  /\ UNCHANGED <<db, req, res, pre, writes, issued>>

\* the handler of intent p runs on the document it loaded, saves it unless
\* it refuses the request, and returns
Finish(p) ==
  /\ intents[p].pc = "loaded"
  /\ db' = IF Route(intents[p].snap, intents[p]).res.status = 200
             THEN Route(intents[p].snap, intents[p]).db
             ELSE db
  /\ intents' = [intents EXCEPT ![p].pc = "done"]
  /\ running' = IF running = p THEN 0 ELSE running
  /\ UNCHANGED <<req, res, pre, writes, issued>>

NextConc ==
  \/ \E p \in 1..MaxIntents : Load(p)
  \/ \E p \in 1..MaxIntents : Finish(p)

SpecConc == InitConc /\ [][NextConc]_vars

(***************************************************************************)
(* Vocabulary of the properties.                                           *)
(***************************************************************************)
RECURSIVE SumSeq(_)
\* sum of a sequence of integers
SumSeq(s) == IF Len(s) = 0 THEN 0 ELSE s[1] + SumSeq(Tail(s))

\* total quantity of the movements of one direction recorded for a code
MovedQty(moves, code, type) ==
  SumSeq([k \in 1..Len(moves) |->
            IF moves[k].bookBarcode = code /\ moves[k].type = type THEN moves[k].qty ELSE 0])

\* a book / a seller holds the code
HoldsCode(coll, code) == \E k \in 1..Len(coll) : coll[k].barcode = code
Holder(coll, code) == CHOOSE k \in 1..Len(coll) : coll[k].barcode = code

\* the quantity a request asks for, as the handlers read it
AskedQty(v) == ParseQty(v)
ValidQty(v) == ~AskedQty(v).nan /\ AskedQty(v).n >= 1

\* the last request was op and it was answered with success / rejected
Did(op) == req.op = op /\ res.status = 200
Refused(op) == req.op = op /\ res.status # 200

(***************************************************************************)
(* C1: every book's current_qty equals its initial_qty plus the quantities *)
(* of the 'in' movements recorded for its code minus those of the 'out'    *)
(* movements recorded for its code, in every reachable state.              *)
(***************************************************************************)
C1_LedgerBalance ==
  \A i \in 1..Len(db.books) :
    db.books[i].current_qty =
      db.books[i].initial_qty
        + MovedQty(db.stockMovements, db.books[i].barcode, "in")
        - MovedQty(db.stockMovements, db.books[i].barcode, "out")

(***************************************************************************)
(* C2: every book's current_qty is an integer >= 0 in every reachable      *)
(* state, after single sales and after quick sales of any item list.       *)
(***************************************************************************)
C2_StockNeverNegative ==
  \A i \in 1..Len(db.books) :
    db.books[i].current_qty \in Int /\ db.books[i].current_qty >= 0

(***************************************************************************)
(* C3: a quick sale is all-or-nothing.  When the seller is unknown or some *)
(* item fails validation (empty code, quantity that is not a number or is  *)
(* not positive, unknown book, quantity above the book's stock) the books, *)
(* movements and sales are those loaded; otherwise every item is applied:  *)
(* one movement and one sale per item, and each book's stock lowered by    *)
(* the quantities of the items that name it.  Quantities are those the     *)
(* handler reads from the items (ParseQty).                                *)
(***************************************************************************)
ItemFails(books, item) ==
  \/ Trim(item.barcode) = ""
  \/ ~ValidQty(item.qty)
  \/ ~HoldsCode(books, Trim(item.barcode))
  \/ AskedQty(item.qty).n > books[Holder(books, Trim(item.barcode))].current_qty

BatchFails(d, body) ==
  \/ ~body.isArray
  \/ Len(body.items) = 0
  \/ ~HoldsCode(d.sellers, Trim(body.sellerBarcode))
  \/ \E k \in 1..Len(body.items) : ItemFails(d.books, body.items[k])

\* quantity the items ask of one code
ItemsQty(items, code) ==
  SumSeq([k \in 1..Len(items) |->
            IF Trim(items[k].barcode) = code THEN AskedQty(items[k].qty).n ELSE 0])

C3_QuickSaleAllOrNothing ==
  req.op = "quick" =>
    IF BatchFails(pre, req.body)
    THEN res.status # 200 /\ db = pre
    ELSE /\ res.status = 200
         /\ Len(db.stockMovements) = Len(pre.stockMovements) + Len(req.body.items)
         /\ Len(db.sales) = Len(pre.sales) + Len(req.body.items)
         /\ Len(db.books) = Len(pre.books)
         /\ \A i \in 1..Len(pre.books) :
              db.books[i] =
                [pre.books[i] EXCEPT
                   !.current_qty = @ - ItemsQty(req.body.items, pre.books[i].barcode)]

\* a batch refused because of its second item, the first being sellable
C3_Witness ==
  /\ Refused("quick")
  /\ Len(req.body.items) = 2
  /\ ~ItemFails(pre.books, req.body.items[1])
  /\ ItemFails(pre.books, req.body.items[2])
  /\ HoldsCode(pre.sellers, Trim(req.body.sellerBarcode))

(***************************************************************************)
(* C4: a single sale succeeds exactly when the book and the seller exist   *)
(* and the quantity asked is at least 1 and at most the book's             *)
(* current_qty; it then lowers current_qty by exactly that quantity, and   *)
(* a refused sale leaves the document as loaded; asking current_qty + 1 is *)
(* refused as insufficient stock.  The quantity is the one the handler     *)
(* reads from the request (ParseQty).                                      *)
(***************************************************************************)
C4_SingleSale ==
  req.op = "sale" =>
    LET code == Trim(req.body.bookBarcode)
        q == AskedQty(req.body.qty).n
        known == HoldsCode(pre.books, code) /\ HoldsCode(pre.sellers, Trim(req.body.sellerBarcode))
        b == Holder(pre.books, code)
        sellable == known /\ ValidQty(req.body.qty) /\ q <= pre.books[b].current_qty
    IN /\ res.status = 200 <=> sellable
       /\ sellable =>
            /\ db.books = [pre.books EXCEPT ![b] = [@ EXCEPT !.current_qty = @ - q]]
            /\ res.data.qty = q
       /\ ~sellable => db = pre
       /\ (known /\ ValidQty(req.body.qty) /\ q = pre.books[b].current_qty + 1) =>
            res.status = 400 /\ res.error.text = "insufficient stock"

\* the whole stock of a book was sold in one sale
C4_Witness ==
  /\ Did("sale")
  /\ AskedQty(req.body.qty).n >= 1
  /\ \E i \in 1..Len(db.books) :
       /\ db.books[i].barcode = Trim(req.body.bookBarcode)
       /\ db.books[i].current_qty = 0
       /\ pre.books[i].current_qty = AskedQty(req.body.qty).n

(***************************************************************************)
(* C5: no two books of the document hold the same code, in every reachable *)
(* state; a creation that gives a code some book already holds is refused  *)
(* and leaves the document as loaded, and a book created without a code    *)
(* receives a code that no book held.                                      *)
(***************************************************************************)
C5_BookCodesUnique ==
  /\ \A i, j \in 1..Len(db.books) : i # j => db.books[i].barcode # db.books[j].barcode
  /\ (req.op = "books" /\ req.body.id = 0 /\ Trim(req.body.barcode) # ""
        /\ HoldsCode(pre.books, Trim(req.body.barcode)))
       => res.status # 200 /\ db = pre
  /\ (Did("books") /\ req.body.id = 0 /\ Trim(req.body.barcode) = "")
       => /\ ~HoldsCode(pre.books, res.data.barcode)
          /\ res.data.barcode # ""
          /\ db.books = Append(pre.books, res.data)

\* with two books held, a request was refused because its code is taken
C5_Witness ==
  /\ Refused("books")
  /\ Len(db.books) = 2
  /\ Trim(req.body.barcode) # ""
  /\ res.error.text = "barcode exists"

(***************************************************************************)
(* C6: a successful quick sale of n items applies them in input order: the *)
(* movements and the sales each grow by exactly n, the k-th appended       *)
(* movement is an 'out' movement and the k-th appended sale a sale, both   *)
(* with the code and the quantity of the k-th item, each book's stock is   *)
(* lowered by the quantities of the items that name it; the response gives *)
(* totalAmount = sum of price x qty over the items = sum of the totals of  *)
(* the appended sales, totalQty = sum of the quantities, itemsCount = n.   *)
(***************************************************************************)
C6_QuickSaleApplied ==
  Did("quick") =>
    LET items == req.body.items
        n == Len(items)
        m0 == Len(pre.stockMovements)
        s0 == Len(pre.sales)
        qty(k) == AskedQty(items[k].qty).n
        code(k) == Trim(items[k].barcode)
        price(k) == pre.books[Holder(pre.books, code(k))].price
    IN /\ Len(db.stockMovements) = m0 + n
       /\ Len(db.sales) = s0 + n
       /\ SubSeq(db.stockMovements, 1, m0) = pre.stockMovements
       /\ SubSeq(db.sales, 1, s0) = pre.sales
       /\ \A k \in 1..n :
            /\ db.stockMovements[m0 + k].type = "out"
            /\ db.stockMovements[m0 + k].bookBarcode = code(k)
            /\ db.stockMovements[m0 + k].qty = qty(k)
            /\ db.sales[s0 + k].bookBarcode = code(k)
            /\ db.sales[s0 + k].qty = qty(k)
            /\ db.sales[s0 + k].sellerBarcode = Trim(req.body.sellerBarcode)
       /\ \A i \in 1..Len(pre.books) :
            db.books[i].current_qty =
              pre.books[i].current_qty - ItemsQty(items, pre.books[i].barcode)
       /\ res.data.totalAmount = SumSeq([k \in 1..n |-> price(k) * qty(k)])
       /\ res.data.totalAmount = SumSeq([k \in 1..n |-> db.sales[s0 + k].total])
       /\ res.data.totalQty = SumSeq([k \in 1..n |-> qty(k)])
       /\ res.data.itemsCount = n

\* a quick sale of two priced items of different books went through
C6_Witness ==
  /\ Did("quick")
  /\ Len(req.body.items) = 2
  /\ Trim(req.body.items[1].barcode) # Trim(req.body.items[2].barcode)
  /\ db.sales[Len(db.sales)].total > 0
  /\ db.sales[Len(db.sales) - 1].total > 0

(***************************************************************************)
(* C7: in a successful quick sale of n items the appended movements carry  *)
(* the identifiers m, m+1, .., m+n-1 in input order, m being 1 when there  *)
(* was no movement and the largest movement identifier plus 1 otherwise;   *)
(* the appended sales carry s, s+1, .., s+n-1 likewise.                    *)
(***************************************************************************)
FirstFree(coll) ==
  IF coll = <<>> THEN 1
  ELSE 1 + CHOOSE x \in {coll[k].id : k \in 1..Len(coll)} :
               \A k \in 1..Len(coll) : coll[k].id <= x

C7_QuickSaleIdsSequential ==
  Did("quick") =>
    /\ \A k \in 1..Len(req.body.items) :
         /\ db.stockMovements[Len(pre.stockMovements) + k].id
              = FirstFree(pre.stockMovements) + k - 1
         /\ db.sales[Len(pre.sales) + k].id = FirstFree(pre.sales) + k - 1

\* a quick sale of two items after earlier movements and sales
C7_Witness ==
  /\ Did("quick")
  /\ Len(req.body.items) = 2
  /\ pre.stockMovements # <<>>
  /\ pre.sales # <<>>

(***************************************************************************)
(* C8: when a quick sale is refused because of its items, the failure      *)
(* reported is that of the first failing item in input order, and the      *)
(* message identifies both the 1-based index of that item and its book     *)
(* code.                                                                   *)
(***************************************************************************)
FirstFailing(books, items) ==
  CHOOSE f \in 1..Len(items) :
    /\ ItemFails(books, items[f])
    /\ \A k \in 1..(f - 1) : ~ItemFails(books, items[k])

C8_FailureNamesIndexAndCode ==
  (/\ req.op = "quick"
   /\ req.body.isArray
   /\ HoldsCode(pre.sellers, Trim(req.body.sellerBarcode))
   /\ \E k \in 1..Len(req.body.items) : ItemFails(pre.books, req.body.items[k]))
  => LET f == FirstFailing(pre.books, req.body.items)
     IN /\ res = QuickCheckItem(pre.books, req.body.items[f], f)
        /\ res.error.index = f
        /\ res.error.code = Trim(req.body.items[f].barcode)

(***************************************************************************)
(* C9: the total of a sale record is the book's stored price at the moment *)
(* of the sale times the quantity sold, and no later request changes the   *)
(* total of a sale already recorded; an update of the book's price leaves  *)
(* the totals of its earlier sales as they were.                           *)
(***************************************************************************)
C9_SaleTotalsFixed ==
  /\ Len(db.sales) >= Len(pre.sales)
  /\ \A k \in 1..Len(pre.sales) : db.sales[k].total = pre.sales[k].total
  /\ \A k \in (Len(pre.sales) + 1)..Len(db.sales) :
       /\ HoldsCode(pre.books, db.sales[k].bookBarcode)
       /\ db.sales[k].total =
            pre.books[Holder(pre.books, db.sales[k].bookBarcode)].price * db.sales[k].qty

\* an update changed the price of a book sold earlier at the former price
C9_Witness ==
  /\ Did("books")
  /\ req.body.id # 0
  /\ \E i \in 1..Len(pre.books) :
       /\ pre.books[i].id = req.body.id
       /\ db.books[i].price # pre.books[i].price
       /\ \E k \in 1..Len(pre.sales) :
            /\ pre.sales[k].bookBarcode = pre.books[i].barcode
            /\ db.sales[k].total = pre.books[i].price * db.sales[k].qty
            /\ db.sales[k].total # db.books[i].price * db.sales[k].qty

(***************************************************************************)
(* C10: a restock with the code of an existing book and an integer qty >=  *)
(* 1 raises that book's current_qty by exactly qty, appends exactly one    *)
(* 'in' movement with that code and qty and leaves the other books, the    *)
(* sellers and the sales as they were; with an empty code, a qty that is   *)
(* not a positive integer, or a code no book holds, it is refused and the  *)
(* document is unchanged.                                                  *)
(***************************************************************************)
PositiveInteger(v) == v.k = "num" /\ v.n >= 1

C10_Restock ==
  req.op = "in" =>
    LET code == Trim(req.body.barcode)
        b == Holder(pre.books, code)
        m == db.stockMovements[Len(db.stockMovements)]
    IN IF code # "" /\ HoldsCode(pre.books, code) /\ PositiveInteger(req.body.qty)
       THEN /\ res.status = 200
            /\ db.books = [pre.books EXCEPT ![b] = [@ EXCEPT !.current_qty = @ + req.body.qty.n]]
            /\ Len(db.stockMovements) = Len(pre.stockMovements) + 1
            /\ SubSeq(db.stockMovements, 1, Len(pre.stockMovements)) = pre.stockMovements
            /\ m.type = "in" /\ m.bookBarcode = code /\ m.qty = req.body.qty.n
            /\ db.sellers = pre.sellers
            /\ db.sales = pre.sales
       ELSE res.status # 200 /\ db = pre

\* the same contract with the quantity as the handler reads it (ParseQty):
\* this is what the handler keeps
RestockAsRead ==
  req.op = "in" =>
    LET code == Trim(req.body.barcode)
        b == Holder(pre.books, code)
        q == AskedQty(req.body.qty).n
        m == db.stockMovements[Len(db.stockMovements)]
    IN IF code # "" /\ HoldsCode(pre.books, code) /\ ValidQty(req.body.qty)
       THEN /\ res.status = 200
            /\ db.books = [pre.books EXCEPT ![b] = [@ EXCEPT !.current_qty = @ + q]]
            /\ db.stockMovements =
                 Append(pre.stockMovements,
                        Movement(FirstFree(pre.stockMovements), "in", code, q, req.body.note))
            /\ db.sellers = pre.sellers
            /\ db.sales = pre.sales
       ELSE res.status # 200 /\ db = pre

(***************************************************************************)
(* C11: an update of an existing book changes nothing but that book's      *)
(* code, title, author, publisher, shelf and price: the book's id,         *)
(* initial_qty and current_qty, every other book, the sellers, the         *)
(* movements and the sales are as loaded, whatever quantity the request    *)
(* carries; an accepted update stores the title, author, publisher, shelf  *)
(* and price of the request.                                               *)
(***************************************************************************)
\* the request is an update and names a book of the document as loaded
UpdatesExisting ==
  /\ req.op = "books"
  /\ req.body.id # 0
  /\ \E i \in 1..Len(pre.books) : pre.books[i].id = req.body.id

Updated == CHOOSE i \in 1..Len(pre.books) : pre.books[i].id = req.body.id

C11_UpdateFrame ==
  UpdatesExisting =>
    /\ Len(db.books) = Len(pre.books)
    /\ \A j \in 1..Len(pre.books) : j # Updated => db.books[j] = pre.books[j]
    /\ db.books[Updated].id = pre.books[Updated].id
    /\ db.books[Updated].initial_qty = pre.books[Updated].initial_qty
    /\ db.books[Updated].current_qty = pre.books[Updated].current_qty
    /\ db.sellers = pre.sellers
    /\ db.stockMovements = pre.stockMovements
    /\ db.sales = pre.sales
    /\ res.status = 200 =>
         /\ db.books[Updated].title = Trim(req.body.title)
         /\ db.books[Updated].author = req.body.author
         /\ db.books[Updated].publisher = req.body.publisher
         /\ db.books[Updated].shelf = req.body.shelf
         /\ db.books[Updated].price = ParsePrice(req.body.price).n

\* an accepted update whose request carries a quantity other than the book's
C11_Witness ==
  /\ UpdatesExisting
  /\ res.status = 200
  /\ db.books[Updated] # pre.books[Updated]
  /\ ParseQty(req.body.initialQty).n # pre.books[Updated].initial_qty
  /\ ParseQty(req.body.initialQty).n # pre.books[Updated].current_qty
  /\ Len(pre.books) = 2

(***************************************************************************)
(* C12: a deletion given at least one identifier removes exactly the books *)
(* of the document whose id is among those given and keeps the others in   *)
(* their order; deletedCount is the number of books removed, 0 when no id  *)
(* matches, and an id that matches no book is not an error; the sellers,   *)
(* the movements and the sales are as loaded; the same deletion applied    *)
(* again changes nothing and answers deletedCount 0.                       *)
(***************************************************************************)
\* positions of the loaded books that the request names
Named == {i \in 1..Len(pre.books) : pre.books[i].id \in req.body.ids}

\* s is t with the positions of S left out
IsWithout(s, t, S) ==
  /\ Len(s) = Len(t) - Cardinality(S)
  /\ \A i \in (1..Len(t)) \ S :
       s[i - Cardinality({k \in S : k < i})] = t[i]

C12_DeleteBooks ==
  (req.op = "delete" /\ req.body.isArray /\ req.body.ids # {}) =>
    /\ res.status = 200
    /\ res.data.deletedCount = Cardinality(Named)
    /\ IsWithout(db.books, pre.books, Named)
    /\ \A j \in 1..Len(db.books) : db.books[j].id \notin req.body.ids
    /\ db.sellers = pre.sellers
    /\ db.stockMovements = pre.stockMovements
    /\ db.sales = pre.sales
    /\ PostBooksDelete(db, req.body).db = db
    /\ PostBooksDelete(db, req.body).res = Ok([deletedCount |-> 0])

\* of two books with recorded movements one was deleted, by a request that
\* also names an id no book has
C12_Witness ==
  /\ Did("delete")
  /\ Len(pre.books) = 2
  /\ Cardinality(Named) = 1
  /\ \E x \in req.body.ids : \A i \in 1..Len(pre.books) : pre.books[i].id # x
  /\ pre.stockMovements # <<>>

\* a deletion that names only ids no book has
C12_WitnessNoMatch ==
  /\ Did("delete")
  /\ pre.books # <<>>
  /\ Named = {}
  /\ res.data.deletedCount = 0

(***************************************************************************)
(* C13: in an import, every row whose code is the code of a book of the    *)
(* document as loaded is skipped, whatever its other fields: it counts in  *)
(* skippedExisting, no book and no movement is added for it and no error   *)
(* message is recorded for it.                                             *)
(***************************************************************************)
\* rows of the request that carry the code of a loaded book
KnownRows(filter(_)) ==
  {k \in 1..Len(req.body.rows) :
     /\ req.body.rows[k].present
     /\ filter(req.body.rows[k])
     /\ HoldsCode(pre.books, Trim(req.body.rows[k].barcode))}

SkippedAll(known) ==
  /\ \A k \in known : \A e \in 1..Len(res.data.errors) : res.data.errors[e].index # k
  /\ res.data.skippedExisting >= Cardinality(known)
  /\ \A i \in (Len(pre.books) + 1)..Len(db.books) :
       ~HoldsCode(pre.books, db.books[i].barcode)
  /\ \A m \in (Len(pre.stockMovements) + 1)..Len(db.stockMovements) :
       ~HoldsCode(pre.books, db.stockMovements[m].bookBarcode)
  /\ SubSeq(db.books, 1, Len(pre.books)) = pre.books

C13_ImportSkipsExisting ==
  Did("import") => SkippedAll(KnownRows(LAMBDA row : TRUE))

\* what the handler keeps: the rows that also carry a title are skipped
SkipsExistingWithTitle ==
  Did("import") => SkippedAll(KnownRows(LAMBDA row : Trim(row.title) # ""))

(***************************************************************************)
(* C14: the movements and the sales are append-only.  Over every request   *)
(* (create, update, delete book, create seller, restock, single sale,      *)
(* quick sale, import), accepted or refused, the movements before it are a *)
(* prefix of the movements after it, every earlier record unchanged, and   *)
(* likewise the sales.                                                     *)
(***************************************************************************)
IsPrefix(s, t) == Len(s) <= Len(t) /\ SubSeq(t, 1, Len(s)) = s

C14_AppendOnly ==
  [][/\ IsPrefix(db.stockMovements, db'.stockMovements)
     /\ IsPrefix(db.sales, db'.sales)]_vars

\* a book with recorded movements and sales was deleted
C14_Witness ==
  /\ Did("delete")
  /\ Len(db.books) < Len(pre.books)
  /\ \E i \in 1..Len(pre.books) :
       /\ ~HoldsCode(db.books, pre.books[i].barcode)
       /\ \E m \in 1..Len(db.stockMovements) :
            db.stockMovements[m].bookBarcode = pre.books[i].barcode
       /\ \E k \in 1..Len(db.sales) : db.sales[k].bookBarcode = pre.books[i].barcode

(***************************************************************************)
(* C15: book identifiers are given in increasing order.  Over any sequence *)
(* of creations, imports and deletions, the id of a newly created book is  *)
(* greater than every id given to a book before, so that no id is given    *)
(* twice.                                                                  *)
(***************************************************************************)
C15_BookIdsMonotonic ==
  [][\A i \in (Len(db.books) + 1)..Len(db'.books) : db'.books[i].id > issued]_vars

\* what the handlers keep: a new id is greater than the ids of the books held
NewIdAboveHeld ==
  \A i \in (Len(pre.books) + 1)..Len(db.books) :
    \A j \in 1..Len(pre.books) : db.books[i].id > pre.books[j].id

(***************************************************************************)
(* C16: in every reachable state the ids of the books are pairwise         *)
(* distinct, and so are those of the sellers, of the movements and of the  *)
(* sales; every record a request adds carries id 1 when its collection was *)
(* empty and otherwise the largest id then in the collection plus 1; the   *)
(* ids of the movements and of the sales increase strictly in append       *)
(* order.                                                                  *)
(***************************************************************************)
DistinctIds(coll) == \A i, j \in 1..Len(coll) : i # j => coll[i].id # coll[j].id

IncreasingIds(coll) == \A i, j \in 1..Len(coll) : i < j => coll[i].id < coll[j].id

\* the records after the first n each carry the first free id of those before
AllocatedInTurn(coll, n) ==
  \A i \in (n + 1)..Len(coll) : coll[i].id = FirstFree(SubSeq(coll, 1, i - 1))

C16_IdsDistinct ==
  /\ DistinctIds(db.books)
  /\ DistinctIds(db.sellers)
  /\ DistinctIds(db.stockMovements)
  /\ DistinctIds(db.sales)
  /\ AllocatedInTurn(db.books, Len(pre.books))
  /\ AllocatedInTurn(db.sellers, Len(pre.sellers))
  /\ AllocatedInTurn(db.stockMovements, Len(pre.stockMovements))
  /\ AllocatedInTurn(db.sales, Len(pre.sales))
  /\ IncreasingIds(db.stockMovements)
  /\ IncreasingIds(db.sales)

\* a book was created after the first of two books was deleted, the document
\* holding several sellers, movements and sales
C16_Witness ==
  /\ Did("books")
  /\ Len(db.books) = 2
  /\ Len(pre.books) = 1
  /\ pre.books[1].id = 2
  /\ Len(db.sellers) = 2
  /\ db.stockMovements # <<>>

(***************************************************************************)
(* C17: an update is rejected as not found when no book has the id, and    *)
(* as a conflict when the code given is not empty, differs from the book's *)
(* own code and is held by another book; in both cases the document is     *)
(* unchanged.  With the code left out or empty the book keeps its code,    *)
(* and with the book's own code the update succeeds.                       *)
(***************************************************************************)
OwnCode == pre.books[Updated].barcode

UpdateOutcome ==
  LET code == Trim(req.body.barcode)
  IN IF ~UpdatesExisting
       THEN res.status = 404 /\ db = pre
     ELSE IF code # "" /\ code # OwnCode /\ HoldsCode(pre.books, code)
       THEN res.status = 400 /\ res.error.text = "barcode exists" /\ db = pre
     ELSE /\ res.status = 200
          /\ db.books[Updated].barcode = IF code = "" THEN OwnCode ELSE code
          /\ res.data = db.books[Updated]

C17_UpdateErrors ==
  (req.op = "books" /\ req.body.id # 0) => UpdateOutcome

\* the title, the price and the quantity of the request pass the checks
\* that the handler makes before it looks at the id
ValidFields(body) ==
  /\ Trim(body.title) # ""
  /\ ~ParsePrice(body.price).nan /\ ParsePrice(body.price).n >= 0
  /\ ~ParseQty(body.initialQty).nan /\ ParseQty(body.initialQty).n >= 0

\* C17 as amended: the same for an update whose title is not empty and
\* whose price and quantity are valid; any other update is refused as
\* invalid, whatever its id and code, and the document is unchanged.
C17_UpdateErrorsValidFields ==
  (req.op = "books" /\ req.body.id # 0) =>
    IF ValidFields(req.body) THEN UpdateOutcome
    ELSE res.status = 400 /\ res.error.text # "barcode exists" /\ db = pre

\* of two books, one was asked to take the code of the other
C17_Witness ==
  /\ Refused("books")
  /\ UpdatesExisting
  /\ ValidFields(req.body)
  /\ Len(pre.books) = 2
  /\ Trim(req.body.barcode) # OwnCode
  /\ res.error.text = "barcode exists"

\* an update that names the book's own code
C17_WitnessOwnCode ==
  /\ Did("books")
  /\ UpdatesExisting
  /\ Trim(req.body.barcode) = OwnCode
  /\ Len(pre.books) = 2

(***************************************************************************)
(* C18: every request runs its load, validation, mutation and save as one  *)
(* uninterrupted step.  With several requests in flight in the one server  *)
(* process, no request loads or saves between the load and the save of     *)
(* another, so that the document on disk after them is the result of       *)
(* running them one after the other in some order, and no request's        *)
(* effects are overwritten by the save of another.                         *)
(***************************************************************************)
\* the document after the intents run one after the other in the given order
RECURSIVE SerialRun(_, _, _)
SerialRun(d, order, k) ==
  IF k > Len(order) THEN d
  ELSE SerialRun(IF Route(d, intents[order[k]]).res.status = 200
                   THEN Route(d, intents[order[k]]).db ELSE d,
                 order, k + 1)

Orders == {o \in [1..MaxIntents -> 1..MaxIntents] : \A i, j \in 1..MaxIntents : i # j => o[i] # o[j]}

AllDone == intents # <<>> /\ \A p \in 1..MaxIntents : intents[p].pc = "done"

C18_IntentsSerial ==
  /\ Cardinality({p \in DOMAIN intents : intents[p].pc = "loaded"}) <= 1
  /\ \A p \in DOMAIN intents :
       intents[p].pc = "loaded" => running = p /\ intents[p].snap = db
  /\ AllDone => \E o \in Orders : db = SerialRun(pre, o, 1)

\* two requests that both change the document were answered, the second on
\* the document the first had saved
C18_Witness ==
  /\ AllDone
  /\ intents[1].op = "in"
  /\ intents[2].op = "quick"
  /\ intents[1].snap # intents[2].snap
  /\ Len(db.stockMovements) = 3
  /\ db.books[1].current_qty = 1

(***************************************************************************)
(* C19: for every import, insertedCount + skippedExisting + the number of  *)
(* error messages is the number of non-empty rows; the books grow by       *)
(* exactly insertedCount; a row that fails validation does not keep a      *)
(* later row from being inserted; and the movements grow by exactly one    *)
(* 'in' movement, of the initial quantity, for each inserted row whose     *)
(* initial quantity is positive, none for an inserted row of quantity 0.   *)
(***************************************************************************)
\* the books / the movements that the request added, in order
AddedBooks == SubSeq(db.books, Len(pre.books) + 1, Len(db.books))
AddedMoves == SubSeq(db.stockMovements, Len(pre.stockMovements) + 1, Len(db.stockMovements))

\* a row that passes the validation and whose code no loaded book holds
Insertable(row) ==
  /\ row.present
  /\ Trim(row.barcode) # ""
  /\ ValidFields(row)
  /\ ~HoldsCode(pre.books, Trim(row.barcode))

C19_ImportCounts ==
  Did("import") =>
    LET rows == req.body.rows
        stocked == SelectSeq(AddedBooks, LAMBDA b : b.initial_qty > 0)
    IN /\ res.data.insertedCount + res.data.skippedExisting + Len(res.data.errors)
            = Cardinality({k \in 1..Len(rows) : rows[k].present})
       /\ IsPrefix(pre.books, db.books)
       /\ Len(db.books) = Len(pre.books) + res.data.insertedCount
       /\ \A k \in 1..Len(rows) :
            Insertable(rows[k]) =>
              \E i \in 1..Len(AddedBooks) :
                /\ AddedBooks[i].barcode = Trim(rows[k].barcode)
                /\ AddedBooks[i].initial_qty >= 0
       /\ IsPrefix(pre.stockMovements, db.stockMovements)
       /\ Len(AddedMoves) = Len(stocked)
       /\ \A i \in 1..Len(stocked) :
            /\ AddedMoves[i].type = "in"
            /\ AddedMoves[i].bookBarcode = stocked[i].barcode
            /\ AddedMoves[i].qty = stocked[i].initial_qty
       /\ db.sales = pre.sales
       /\ db.sellers = pre.sellers

\* an import whose first row fails validation and whose second row is
\* inserted with a positive initial quantity
C19_Witness ==
  /\ Did("import")
  /\ Len(req.body.rows) = 2
  /\ Len(res.data.errors) = 1
  /\ res.data.errors[1].index = 1
  /\ res.data.insertedCount = 1
  /\ Len(AddedMoves) = 1

\* an import that inserts a row of quantity 0 and one of positive quantity
C19_WitnessZero ==
  /\ Did("import")
  /\ res.data.insertedCount = 2
  /\ Len(AddedMoves) = 1

(***************************************************************************)
(* C20: in every reachable state there are as many sales as 'out'          *)
(* movements, and for every book code the quantities of the sales of that  *)
(* code add up to the quantities of its 'out' movements; a request that    *)
(* appends sales appends one 'out' movement of the same code and quantity  *)
(* for each, in the same order, and no request appends the one without the *)
(* other.                                                                  *)
(***************************************************************************)
OutMoves(moves) == SelectSeq(moves, LAMBDA m : m.type = "out")

SoldQty(sales, code) ==
  SumSeq([k \in 1..Len(sales) |-> IF sales[k].bookBarcode = code THEN sales[k].qty ELSE 0])

C20_SalesMatchOutMovements ==
  /\ Len(db.sales) = Len(OutMoves(db.stockMovements))
  /\ \A code \in {db.sales[k].bookBarcode : k \in 1..Len(db.sales)}
                 \cup {db.stockMovements[k].bookBarcode : k \in 1..Len(db.stockMovements)} :
       SoldQty(db.sales, code) = MovedQty(db.stockMovements, code, "out")
  /\ \A k \in 1..Len(db.sales) :
       /\ OutMoves(db.stockMovements)[k].bookBarcode = db.sales[k].bookBarcode
       /\ OutMoves(db.stockMovements)[k].qty = db.sales[k].qty
  /\ Len(db.sales) - Len(pre.sales)
       = Len(OutMoves(db.stockMovements)) - Len(OutMoves(pre.stockMovements))

\* books of two codes were sold, among movements of both directions
C20_Witness ==
  /\ Len(db.sales) = 2
  /\ db.sales[1].bookBarcode # db.sales[2].bookBarcode
  /\ Len(db.stockMovements) > Len(db.sales)

====
